---- MODULE Spec2Model ----
(***************************************************************************)
(* GSTR-2A Excel -> Tally XML converter (src/app.py).                      *)
(*                                                                         *)
(* Text is modelled as a sequence of one-character strings, a spreadsheet  *)
(* cell as a tagged record (null / text / number / date), a Decimal as a   *)
(* sign and a magnitude in hundredths, and an XML AMOUNT text by the       *)
(* signed number of hundredths it denotes.                                 *)
(***************************************************************************)
EXTENDS Integers, Sequences, FiniteSets, TLC

VARIABLES
    pc,              \* position of the operation under way
    today,           \* the calendar date datetime.now() returns
    date_like,       \* format_date_for_tally: argument
    date_ret,        \* format_date_for_tally: returned text
    rec,             \* add_*_voucher: the record
    req,             \* add_*_voucher: children of the REQUESTDATA node
    ws,              \* extract_*: the worksheet (status and raw rows)
    ret_rows,        \* extract_*: returned rows
    layout,          \* extract_cdnr: the column layout it read the sheet with
    files,           \* main: uploaded files
    company,         \* main: company name
    use_inv_as_vch,  \* main: voucher-numbering option
    fi,              \* main: index of the next file of the loop
    all_b2b,         \* main: accumulated B2B rows
    all_cdnr,        \* main: accumulated CDNR rows
    outputs,         \* main: combined_xml of each click of the button
    run_days         \* main: the day each of the outputs was built on

vars == <<pc, today, date_like, date_ret, rec, req, ws, ret_rows, layout, files,
          company, use_inv_as_vch, fi, all_b2b, all_cdnr, outputs, run_days>>

-----------------------------------------------------------------------------
(* Characters and text                                                     *)

UpperCs == <<"A","B","C","D","E","F","G","H","I","J","K","L","M",
             "N","O","P","Q","R","S","T","U","V","W","X","Y","Z">>
LowerCs == <<"a","b","c","d","e","f","g","h","i","j","k","l","m",
             "n","o","p","q","r","s","t","u","v","w","x","y","z">>
DigitCs == <<"0","1","2","3","4","5","6","7","8","9">>

Range(f) == {f[i] : i \in DOMAIN f}

WS == {" ", "\t", "\n"}

IsDigit(c) == c \in Range(DigitCs)
IsUpper(c) == c \in Range(UpperCs)
IsLower(c) == c \in Range(LowerCs)

DigitVal(c) == (CHOOSE i \in 1..10 : DigitCs[i] = c) - 1

LowerChar(c) == IF IsUpper(c) THEN LowerCs[CHOOSE i \in 1..26 : UpperCs[i] = c] ELSE c

\* a lower() that leaves the case as it is
PyLower_CaseKept(s) == s

PyLower(s) == [i \in 1..Len(s) |-> LowerChar(s[i])]

\* s[a..b], empty when b < a
Slice(s, a, b) == IF b < a THEN <<>> ELSE SubSeq(s, a, b)

\* least and greatest member of a nonempty set of integers
MinOf(S) == CHOOSE i \in S : \A j \in S : i <= j
MaxOf(S) == CHOOSE i \in S : \A j \in S : i >= j

\* s[a..b] for a set of positions, empty when there are none
Span(s, at) == IF at = {} THEN <<>> ELSE SubSeq(s, MinOf(at), MaxOf(at))

PyStrip(s) == Span(s, {i \in 1..Len(s) : s[i] \notin WS})

\* needle in hay
Contains(hay, needle) ==
    \E i \in 1..(Len(hay) - Len(needle) + 1) :
        SubSeq(hay, i, i + Len(needle) - 1) = needle


RECURSIVE NatText(_)
NatText(n) == IF n < 10 THEN <<DigitCs[n + 1]>>
              ELSE NatText(n \div 10) \o <<DigitCs[(n % 10) + 1]>>

RECURSIVE Pad(_, _)
Pad(s, w) == IF Len(s) >= w THEN s ELSE Pad(<<"0">> \o s, w)

RECURSIVE DigitsVal(_)
DigitsVal(s) == IF s = <<>> THEN 0
                ELSE 10 * DigitsVal(SubSeq(s, 1, Len(s) - 1)) + DigitVal(s[Len(s)])

-----------------------------------------------------------------------------
(* Cells                                                                   *)

None == [k |-> "null", s |-> <<>>, n |-> 0]
Txt(s) == [k |-> "str", s |-> s, n |-> 0]
Num(mills) == [k |-> "num", s |-> <<>>, n |-> mills]          \* thousandths
DateObj(y, m, d) == [k |-> "date", s |-> <<>>, n |-> y * 10000 + m * 100 + d]

\* the cell is one of the listed literals (x in (None, "", ...))
IsLit(v, lits) == v.k = "null" \/ (v.k = "str" /\ v.s \in lits)

\* text of a thousandths number, the way str() prints a float or an int
MillsText(n) ==
    LET a == IF n < 0 THEN -n ELSE n
        fr == a % 1000
        frTxt == IF fr = 0 THEN <<>>
                 ELSE IF fr % 100 = 0 THEN <<".">> \o NatText(fr \div 100)
                 ELSE IF fr % 10 = 0 THEN <<".">> \o Pad(NatText(fr \div 10), 2)
                 ELSE <<".">> \o Pad(NatText(fr), 3)
    IN (IF n < 0 THEN <<"-">> ELSE <<>>) \o NatText(a \div 1000) \o frTxt

\* str(v)
PyStr(v) == CASE v.k = "null" -> <<"N","o","n","e">>
              [] v.k = "str"  -> v.s
              [] v.k = "num"  -> MillsText(v.n)
              [] v.k = "date" -> Pad(NatText(v.n \div 10000), 4) \o <<"-">>
                                 \o Pad(NatText((v.n \div 100) % 100), 2) \o <<"-">>
                                 \o Pad(NatText(v.n % 100), 2)
                                 \o <<" ","0","0",":","0","0",":","0","0">>

-----------------------------------------------------------------------------
(* format_date_for_tally                                                   *)

IsLeap(y) == (y % 4 = 0 /\ y % 100 # 0) \/ y % 400 = 0

DaysInMonth(y, m) == IF m = 2 THEN (IF IsLeap(y) THEN 29 ELSE 28)
                     ELSE IF m \in {4, 6, 9, 11} THEN 30 ELSE 31

MonthAbbr == << <<"j","a","n">>, <<"f","e","b">>, <<"m","a","r">>, <<"a","p","r">>,
                <<"m","a","y">>, <<"j","u","n">>, <<"j","u","l">>, <<"a","u","g">>,
                <<"s","e","p">>, <<"o","c","t">>, <<"n","o","v">>, <<"d","e","c">> >>

\* strftime("%Y%m%d")
Strftime(y, m, d) == Pad(NatText(y), 4) \o Pad(NatText(m), 2) \o Pad(NatText(d), 2)

\* the ways one directive can match s from position i: <<next position, value>>
DirectiveEnds(s, i, t) ==
    LET has(k) == i + k - 1 <= Len(s)
        two == IF has(2) /\ IsDigit(s[i]) /\ IsDigit(s[i+1])
               THEN 10 * DigitVal(s[i]) + DigitVal(s[i+1]) ELSE -1
        one == IF has(1) /\ IsDigit(s[i]) THEN DigitVal(s[i]) ELSE -1
    IN CASE t = "%d" ->
              (IF two \in 1..31 THEN {<<i + 2, two>>} ELSE {})
              \cup (IF one \in 1..9 THEN {<<i + 1, one>>} ELSE {})
              \cup (IF has(2) /\ s[i] = " " /\ IsDigit(s[i+1]) /\ DigitVal(s[i+1]) \in 1..9
                    THEN {<<i + 2, DigitVal(s[i+1])>>} ELSE {})
         [] t = "%m" ->
              (IF two \in 1..12 THEN {<<i + 2, two>>} ELSE {})
              \cup (IF one \in 1..9 THEN {<<i + 1, one>>} ELSE {})
         [] t = "%y" ->
              IF two >= 0 THEN {<<i + 2, IF two <= 68 THEN 2000 + two ELSE 1900 + two>>}
              ELSE {}
         [] t = "%Y" ->
              IF has(4) /\ \A k \in i..(i+3) : IsDigit(s[k])
              THEN {<<i + 4, DigitsVal(SubSeq(s, i, i + 3))>>} ELSE {}
         [] t = "%b" ->
              IF has(3)
              THEN {<<i + 3, k>> : k \in {k \in 1..12 : MonthAbbr[k] = PyLower(SubSeq(s, i, i + 2))}}
              ELSE {}

FieldOf(t) == CASE t = "%d" -> "d" [] t = "%m" -> "m" [] t \in {"%y", "%Y"} -> "y"
                [] t = "%b" -> "m"

\* every way the whole of s matches fmt from directive j on: the fields read
RECURSIVE StrpMatch(_, _, _, _, _)
StrpMatch(s, i, fmt, j, acc) ==
    IF j > Len(fmt) THEN (IF i = Len(s) + 1 THEN {acc} ELSE {})
    ELSE LET t == fmt[j]
         IN IF t \in {"%d", "%m", "%y", "%Y", "%b"}
            THEN UNION {StrpMatch(s, e[1], fmt, j + 1, [acc EXCEPT ![FieldOf(t)] = e[2]])
                        : e \in DirectiveEnds(s, i, t)}
            ELSE IF t = " "
            THEN UNION {StrpMatch(s, k, fmt, j + 1, acc)
                        : k \in {k \in (i+1)..(Len(s)+1) : \A p \in i..(k-1) : s[p] \in WS}}
            ELSE IF i <= Len(s) /\ s[i] = t THEN StrpMatch(s, i + 1, fmt, j + 1, acc)
            ELSE {}

NoDate == [y |-> 0, m |-> 0, d |-> 0]

\* datetime.strptime(s, fmt): the date, or NoDate for ValueError
Strptime(s, fmt) ==
    LET ms == {r \in StrpMatch(s, 1, fmt, 1, NoDate) :
                  r.y >= 1 /\ r.d <= DaysInMonth(r.y, r.m)}
    IN IF ms = {} THEN NoDate ELSE CHOOSE r \in ms : TRUE

ShortFmts == << <<"%d","-","%m","-","%y">>, <<"%d","/","%m","/","%y">>,
                <<"%d",".","%m",".","%y">> >>

LongFmts == << <<"%d","-","%m","-","%Y">>, <<"%d","/","%m","/","%Y">>,
               <<"%Y","-","%m","-","%d">>, <<"%d","-","%b","-","%Y">>,
               <<"%d"," ","%b"," ","%Y">> >>

\* first format of fmts (from k on) that parses s, 0 when none does
RECURSIVE FirstFmt(_, _, _)
FirstFmt(s, fmts, k) == IF k > Len(fmts) THEN 0
                        ELSE IF Strptime(s, fmts[k]) # NoDate THEN k
                        ELSE FirstFmt(s, fmts, k + 1)

\* dt.replace(year = dt.year + 2000) when dt.year < 2000
ShortYear(y) == IF y < 2000 THEN y + 2000 ELSE y

\* a date that is always the day of the run
format_date_for_tally_Today(v, now) == Strftime(now.y, now.m, now.d)

format_date_for_tally(v, now) ==
    IF IsLit(v, {<<>>, <<"-">>}) THEN Strftime(now.y, now.m, now.d)
    ELSE IF v.k = "date" THEN Strftime(v.n \div 10000, (v.n \div 100) % 100, v.n % 100)
    ELSE LET s == PyStrip(PyStr(v))
             ks == FirstFmt(s, ShortFmts, 1)
             kl == FirstFmt(s, LongFmts, 1)
         IN IF ks # 0
            THEN LET dt == Strptime(s, ShortFmts[ks])
                 IN Strftime(ShortYear(dt.y), dt.m, dt.d)
            ELSE IF Len(s) = 8 /\ \A i \in 1..8 : IsDigit(s[i]) THEN s
            ELSE IF kl # 0
            THEN LET dt == Strptime(s, LongFmts[kl]) IN Strftime(dt.y, dt.m, dt.d)
            ELSE Strftime(now.y, now.m, now.d)

-----------------------------------------------------------------------------
(* round_amount                                                            *)

\* a Decimal with two fractional digits: sign and hundredths
Dec(neg, mag) == [neg |-> neg, mag |-> mag]

DecZero == Dec(FALSE, 0)

\* numeric value in hundredths
Val(d) == IF d.neg THEN -d.mag ELSE d.mag

\* Decimal(text): sign, integer digits, fraction digits; ok is FALSE where
\* the constructor raises.  Exponent, NaN and Infinity forms are not covered.
DecimalOf(text) ==
    LET Parts(neg, ip, fp, ndots) ==
            [ok   |-> /\ ndots <= 1
                      /\ Len(ip) + Len(fp) >= 1
                      /\ \A i \in 1..Len(ip) : IsDigit(ip[i])
                      /\ \A i \in 1..Len(fp) : IsDigit(fp[i]),
             neg  |-> neg,
             int  |-> ip,
             frac |-> fp]
        Split(neg, body, dots) ==
            IF dots = {} THEN Parts(neg, body, <<>>, 0)
            ELSE Parts(neg, Slice(body, 1, MinOf(dots) - 1),
                       Slice(body, MinOf(dots) + 1, Len(body)), Cardinality(dots))
        Unsigned(neg, body) == Split(neg, body, {i \in 1..Len(body) : body[i] = "."})
        Signed(t) == IF Len(t) >= 1 /\ t[1] \in {"-", "+"}
                     THEN Unsigned(t[1] = "-", Slice(t, 2, Len(t)))
                     ELSE Unsigned(FALSE, t)
    IN Signed(PyStrip(text))

\* quantize(Decimal("0.01"), rounding=ROUND_HALF_UP)
QuantizeHalfUp(d) ==
    LET f1 == IF Len(d.frac) >= 1 THEN DigitVal(d.frac[1]) ELSE 0
        f2 == IF Len(d.frac) >= 2 THEN DigitVal(d.frac[2]) ELSE 0
        f3 == IF Len(d.frac) >= 3 THEN DigitVal(d.frac[3]) ELSE 0
    IN Dec(d.neg, DigitsVal(d.int) * 100 + f1 * 10 + f2 + (IF f3 >= 5 THEN 1 ELSE 0))

round_amount(x) ==
    IF IsLit(x, {<<>>, <<" ">>, <<"-">>}) THEN DecZero
    ELSE LET Quantized(d) == IF d.ok THEN QuantizeHalfUp(d) ELSE DecZero
         IN Quantized(DecimalOf(PyStr(x)))

-----------------------------------------------------------------------------
(* clean_party_name, norm_number, looks_like_total_or_bold                 *)

UnknownSupplier == <<"U","n","k","n","o","w","n"," ","S","u","p","p","l","i","e","r">>

GstinLen == 15

\* largest index <= p whose character is not whitespace, 0 when there is none
SkipWsBack(s, p) ==
    LET c == {i \in 1..p : s[i] \notin WS}
    IN IF c = {} THEN 0 ELSE CHOOSE i \in c : \A j \in c : i >= j

\* re.sub(r"\s*-\s*[A-Z0-9]{15}$", "", s)
StripGstinSuffix(s) ==
    LET n == Len(s)
        p == n - GstinLen
        q == IF p >= 1 THEN SkipWsBack(s, p) ELSE 0
    IN IF /\ p >= 1
          /\ \A i \in (p+1)..n : IsUpper(s[i]) \/ IsDigit(s[i])
          /\ q >= 1 /\ s[q] = "-"
       THEN Slice(s, 1, SkipWsBack(s, q - 1))
       ELSE s

\* re.sub(r"\s{2,}", " ", s)
RECURSIVE CollapseWs(_)
CollapseWs(s) ==
    IF s = <<>> THEN <<>>
    ELSE IF s[1] \in WS /\ Len(s) >= 2 /\ s[2] \in WS
    THEN LET nxt == {i \in 1..Len(s) : s[i] \notin WS}
             e == IF nxt = {} THEN Len(s) + 1 ELSE CHOOSE i \in nxt : \A j \in nxt : i <= j
         IN <<" ">> \o CollapseWs(Slice(s, e, Len(s)))
    ELSE <<s[1]>> \o CollapseWs(Tail(s))

clean_party_name(name) ==
    IF IsLit(name, {<<>>, <<" ">>}) THEN UnknownSupplier
    ELSE LET s == CollapseWs(StripGstinSuffix(PyStrip(PyStr(name))))
         IN IF s = <<>> THEN UnknownSupplier ELSE s

TotalTokens == { <<"t","o","t","a","l">>, <<"t","o","t">>, <<"t","o","i">> }

\* t is (total|tot|toi)\s*, ignoring case
IsTotalTail(t) ==
    \E tok \in TotalTokens :
        /\ Len(t) >= Len(tok)
        /\ PyLower(SubSeq(t, 1, Len(tok))) = tok
        /\ \A i \in (Len(tok)+1)..Len(t) : t[i] \in WS

\* t is (-|\s)*(total|tot|toi)\s*, ignoring case
IsDashedTotalTail(t) ==
    \E a \in 0..Len(t) :
        /\ \A i \in 1..a : t[i] = "-" \/ t[i] \in WS
        /\ IsTotalTail(Slice(t, a + 1, Len(t)))

\* re.sub(r"(-|\s)*(total|tot|toi)\s*$", "", s, flags=re.IGNORECASE)
StripTotalSuffix(s) ==
    LET st == {i \in 1..Len(s) : IsDashedTotalTail(Slice(s, i, Len(s)))}
    IN IF st = {} THEN s
       ELSE Slice(s, 1, (CHOOSE i \in st : \A j \in st : i <= j) - 1)

\* re.sub(r"[^A-Za-z0-9/\-]", "", s)
KeepDocChars(s) ==
    SelectSeq(s, LAMBDA c : IsUpper(c) \/ IsLower(c) \/ IsDigit(c) \/ c \in {"/", "-"})

norm_number(no) ==
    IF IsLit(no, {<<>>, <<" ">>}) THEN <<>>
    ELSE KeepDocChars(StripTotalSuffix(PyStrip(PyStr(no))))

\* the one character U+2014
EmDash == "U+2014"

\* both arguments are texts at every call
looks_like_total_or_bold(row_type_value, inv_no) ==
    \/ row_type_value \in {<<>>, <<"-">>, <<EmDash>>}
    \/ \E i \in 1..Len(inv_no) : IsTotalTail(Slice(inv_no, i, Len(inv_no)))

-----------------------------------------------------------------------------
(* Decimal text                                                            *)

\* str(d) of a two-digit Decimal, also what an f-string prints
DecText(d) == (IF d.neg THEN <<"-">> ELSE <<>>) \o NatText(d.mag \div 100) \o <<".">>
              \o Pad(NatText(d.mag % 100), 2)

\* a + b of two-digit Decimals (the sign of a zero sum follows the operands)
DecAdd(a, b) == LET v == Val(a) + Val(b)
                IN IF v = 0 THEN Dec(a.neg /\ b.neg, 0)
                   ELSE IF v < 0 THEN Dec(TRUE, -v) ELSE Dec(FALSE, v)

-----------------------------------------------------------------------------
(* XML utils                                                               *)

\* an ElementTree element: tag, attributes, text and children, in order
El(tag, attrs, text, kids) == [tag |-> tag, attrs |-> attrs, text |-> text, kids |-> kids]

\* ET.SubElement(parent, tag).text = text
Leaf(tag, text) == El(tag, <<>>, text, <<>>)

Yes == <<"Y","e","s">>
No == <<"N","o">>
Create == <<"C","r","e","a","t","e">>
TallyUDF == <<"T","a","l","l","y","U","D","F">>

new_env(bodies) ==
    El("ENVELOPE", <<>>, <<>>,
       <<El("HEADER", <<>>, <<>>, <<Leaf("TALLYREQUEST", <<"I","m","p","o","r","t"," ","D","a","t","a">>)>>)>> \o bodies)

\* the BODY that add_request appends; data are the children its REQUESTDATA gets
add_request(report_name, comp, data) ==
    El("BODY", <<>>, <<>>,
       <<El("IMPORTDATA", <<>>, <<>>,
            <<El("REQUESTDESC", <<>>, <<>>,
                 <<Leaf("REPORTNAME", report_name),
                   El("STATICVARIABLES", <<>>, <<>>,
                      <<Leaf("SVCURRENTCOMPANY", comp)>>)>>),
              El("REQUESTDATA", <<>>, <<>>, data)>>)>>)

ZeroBalance == <<"0",".","0","0">>

ledger_basic(name, parent, billwise) ==
    El("LEDGER", << <<"NAME", name>>, <<"ACTION", Create>> >>, <<>>,
       <<Leaf("NAME", name), Leaf("PARENT", parent), Leaf("ISBILLWISEON", billwise),
         Leaf("OPENINGBALANCE", ZeroBalance), Leaf("AFFECTSSTOCK", No),
         Leaf("ISREVENUE", Yes), Leaf("ISDEEMEDPOSITIVE", No)>>)

ledger_tax(name, dutyhead) ==
    El("LEDGER", << <<"NAME", name>>, <<"ACTION", Create>> >>, <<>>,
       <<Leaf("NAME", name), Leaf("PARENT", <<"D","u","t","i","e","s"," ","&"," ","T","a","x","e","s">>),
         Leaf("TAXTYPE", <<"G","S","T">>), Leaf("GSTDUTYHEAD", dutyhead),
         Leaf("ISINPUTCREDIT", Yes), Leaf("ISBILLWISEON", No),
         Leaf("OPENINGBALANCE", ZeroBalance)>>)

add_bill(name, billtype, amount_str) ==
    El("BILLALLOCATIONS.LIST", <<>>, <<>>,
       <<Leaf("NAME", name), Leaf("BILLTYPE", billtype), Leaf("AMOUNT", amount_str)>>)

\* text and attribute escaping of the serializer
RECURSIVE Escape(_)
Escape(t) ==
    IF t = <<>> THEN <<>>
    ELSE (CASE t[1] = "&" -> <<"&","a","m","p",";">>
            [] t[1] = "<" -> <<"&","l","t",";">>
            [] t[1] = ">" -> <<"&","g","t",";">>
            [] OTHER -> <<t[1]>>) \o Escape(Tail(t))

EscapeAttrs(attrs) == [i \in 1..Len(attrs) |-> <<attrs[i][1], Escape(attrs[i][2])>>]

\* the lines of an element at a depth: one line for a childless element,
\* an opening and a closing line around the children otherwise
RECURSIVE PrettyLines(_, _)
RECURSIVE PrettyKids(_, _)
PrettyLines(e, depth) ==
    IF e.kids = <<>>
    THEN <<[depth |-> depth, kind |-> "leaf", tag |-> e.tag,
            attrs |-> EscapeAttrs(e.attrs), text |-> Escape(e.text)]>>
    ELSE <<[depth |-> depth, kind |-> "open", tag |-> e.tag,
            attrs |-> EscapeAttrs(e.attrs), text |-> <<>>]>>
         \o PrettyKids(e.kids, depth + 1)
         \o <<[depth |-> depth, kind |-> "close", tag |-> e.tag,
               attrs |-> <<>>, text |-> <<>>]>>
PrettyKids(kids, depth) ==
    IF kids = <<>> THEN <<>>
    ELSE PrettyLines(kids[1], depth) \o PrettyKids(Tail(kids), depth)

\* minidom ... toprettyxml(indent="  "): the XML declaration, then the lines
prettify(elem) ==
    <<[depth |-> 0, kind |-> "decl", tag |-> "?xml", attrs |-> <<>>, text |-> <<>>]>>
    \o PrettyLines(elem, 0)

-----------------------------------------------------------------------------
(* Voucher builders                                                        *)

PurchaseTaxable == <<"P","u","r","c","h","a","s","e"," ","T","a","x","a","b","l","e">>
PurchaseNilRated == <<"P","u","r","c","h","a","s","e"," ","N","i","l"," ","R","a","t","e","d">>
InputIGST == <<"I","N","P","U","T"," ","I","G","S","T">>
InputCGST == <<"I","N","P","U","T"," ","C","G","S","T">>
InputSGST == <<"I","N","P","U","T"," ","S","G","S","T">>
InputCESS == <<"I","N","P","U","T"," ","C","E","S","S">>
RoundingOff == <<"R","o","u","n","d","i","n","g"," ","O","f","f">>
VchPurchase == <<"P","u","r","c","h","a","s","e">>
VchDebitNote == <<"D","e","b","i","t"," ","N","o","t","e">>
VchCreditNote == <<"C","r","e","d","i","t"," ","N","o","t","e">>
NewRef == <<"N","e","w"," ","R","e","f">>
AgstRef == <<"A","g","s","t"," ","R","e","f">>
Debit == <<"d","e","b","i","t">>

\* one ALLLEDGERENTRIES.LIST with its bill allocations
LedgerEntry(name, deemedPositive, amount_str, bills) ==
    El("ALLLEDGERENTRIES.LIST", <<>>, <<>>,
       <<Leaf("LEDGERNAME", name), Leaf("ISDEEMEDPOSITIVE", deemedPositive),
         Leaf("AMOUNT", amount_str)>> \o bills)

TallyMessage(kids) == El("TALLYMESSAGE", << <<"xmlns:UDF", TallyUDF>> >>, <<>>, kids)

\* the (ledger, amount) pairs of the four tax heads, in the order of the loop
TaxHeads(r) == << <<InputIGST, round_amount(r.IGST)>>,
                  <<InputCGST, round_amount(r.CGST)>>,
                  <<InputSGST, round_amount(r.SGST)>>,
                  <<InputCESS, round_amount(r.CESS)>> >>

\* for ln, amt in [...]: if amt > 0: one entry whose AMOUNT is prefix + amt
RECURSIVE TaxEntries(_, _, _)
TaxEntries(heads, prefix, deemedPositive) ==
    IF heads = <<>> THEN <<>>
    ELSE (IF Val(heads[1][2]) > 0
          THEN <<LedgerEntry(heads[1][1], deemedPositive,
                             prefix \o DecText(heads[1][2]), <<>>)>>
          ELSE <<>>)
         \o TaxEntries(Tail(heads), prefix, deemedPositive)

\* total = taxable + igst + cgst + sgst + cess
Total(r) == DecAdd(DecAdd(DecAdd(DecAdd(round_amount(r.Taxable_Value),
                round_amount(r.IGST)), round_amount(r.CGST)),
                round_amount(r.SGST)), round_amount(r.CESS))

\* VOUCHERNUMBER: inv_no if (use_inv_as_vch and inv_no) else ""
VoucherNumber(no, use) == IF use /\ no # <<>> THEN no ELSE <<>>

Minus == <<"-">>

add_purchase_voucher(rq, r, use, now) ==
    LET party == clean_party_name(r.Party_Name)
        inv_no == PyStrip(PyStr(r.Invoice_Number))
        date == format_date_for_tally(r.Invoice_Date, now)
        taxable == round_amount(r.Taxable_Value)
        total == Total(r)
        v == El("VOUCHER", << <<"VCHTYPE", VchPurchase>>, <<"ACTION", Create>> >>, <<>>,
                <<Leaf("VOUCHERTYPENAME", VchPurchase),
                  Leaf("DATE", date),
                  Leaf("EFFECTIVEDATE", date),
                  Leaf("VOUCHERNUMBER", VoucherNumber(inv_no, use)),
                  Leaf("REFERENCE", inv_no),
                  Leaf("NARRATION", <<"P","u","r","c","h","a","s","e"," ","f","r","o","m"," ">> \o party
                                    \o <<" ","-"," ","I","n","v","o","i","c","e",":"," ">> \o inv_no),
                  Leaf("PARTYLEDGERNAME", party)>>
                \o (IF Val(taxable) > 0
                    THEN <<LedgerEntry(PurchaseTaxable, Yes, Minus \o DecText(taxable),
                              <<add_bill(inv_no, NewRef, Minus \o DecText(taxable))>>)>>
                    ELSE <<>>)
                \o TaxEntries(TaxHeads(r), Minus, Yes)
                \o <<LedgerEntry(party, No, DecText(total),
                                 <<add_bill(inv_no, NewRef, DecText(total))>>)>>)
    IN IF party = UnknownSupplier THEN rq
       ELSE IF inv_no = <<>> THEN rq
       ELSE IF Val(total) <= 0 THEN rq
       ELSE Append(rq, TallyMessage(<<v>>))

add_cdnr_voucher(rq, r, use, now) ==
    LET party == clean_party_name(r.Party_Name)
        note_no == PyStrip(PyStr(r.Invoice_Number))
        date == format_date_for_tally(r.Invoice_Date, now)
        taxable == round_amount(r.Taxable_Value)
        total == Total(r)
        note_type == PyLower(PyStrip(PyStr(r.Invoice_Type)))
        isDebit == Contains(note_type, Debit)
        vch_type == IF isDebit THEN VchCreditNote ELSE VchDebitNote
        narration == IF isDebit THEN <<"C","r","e","d","i","t"," ","N","o","t","e"," ","(","S","u","p","p","l","i","e","r"," ","D","e","b","i","t",")">>
                     ELSE <<"D","e","b","i","t"," ","N","o","t","e"," ","(","P","u","r","c","h","a","s","e"," ","R","e","t","u","r","n",")">>
        v == El("VOUCHER", << <<"VCHTYPE", vch_type>>, <<"ACTION", Create>> >>, <<>>,
                <<Leaf("VOUCHERTYPENAME", vch_type),
                  Leaf("VCHENTRYMODE", <<"A","c","c","o","u","n","t","i","n","g">>),
                  Leaf("DATE", date),
                  Leaf("EFFECTIVEDATE", date),
                  Leaf("VOUCHERNUMBER", VoucherNumber(note_no, use)),
                  Leaf("REFERENCE", note_no),
                  Leaf("NARRATION", narration \o <<" ","-"," ","S","u","p","p","l","i","e","r",":"," ">> \o party
                                    \o <<" ","-"," ","R","e","f",":"," ">> \o note_no),
                  Leaf("PARTYLEDGERNAME", party)>>
                \o (IF vch_type = VchDebitNote
                    THEN <<LedgerEntry(party, Yes, Minus \o DecText(total),
                              <<add_bill(note_no, AgstRef, Minus \o DecText(total))>>)>>
                         \o (IF Val(taxable) > 0
                             THEN <<LedgerEntry(PurchaseTaxable, No, DecText(taxable), <<>>)>>
                             ELSE <<>>)
                         \o TaxEntries(TaxHeads(r), <<>>, No)
                    ELSE <<LedgerEntry(party, No, DecText(total),
                              <<add_bill(note_no, AgstRef, DecText(total))>>)>>
                         \o (IF Val(taxable) > 0
                             THEN <<LedgerEntry(PurchaseTaxable, Yes,
                                                Minus \o DecText(taxable), <<>>)>>
                             ELSE <<>>)
                         \o TaxEntries(TaxHeads(r), Minus, Yes)))
    IN IF party = UnknownSupplier THEN rq
       ELSE IF note_no = <<>> THEN rq
       ELSE IF Val(total) <= 0 THEN rq
       ELSE Append(rq, TallyMessage(<<v>>))

-----------------------------------------------------------------------------
(* Excel readers                                                           *)

StartRow == 7
B2bCols == 14
CdnrCols == 15

\* v is None or str(v).strip() == ""
BlankCell(v) == v.k = "null" \/ PyStrip(PyStr(v)) = <<>>

\* the rows start_row..max_row of the sheet, cut to take_cols cells, the
\* all-blank rows left out
_extract_rows(cells, start_row, take_cols) ==
    LET cut == [r \in 1..Len(cells) |-> SubSeq(cells[r], 1, take_cols)]
    IN SelectSeq(Slice(cut, start_row, Len(cut)),
                 LAMBDA row : ~(\A c \in 1..Len(row) : BlankCell(row[c])))

\* one DataFrame row under B2B_COLS
B2bFrame(row) ==
    [GSTIN |-> row[1], Party_Name |-> row[2], Invoice_Number |-> row[3],
     Invoice_Type |-> row[4], Invoice_Date |-> row[5], Invoice_Value |-> row[6],
     G |-> row[7], H |-> row[8], I |-> row[9], Taxable_Value |-> row[10],
     IGST |-> row[11], CGST |-> row[12], SGST |-> row[13], CESS |-> row[14]]

\* column.astype(str).str.strip().ne(""): a missing value prints as a word
NotBlankAsStr(v) == PyStrip(PyStr(v)) # <<>>

\* str(x or "")
StrOrEmpty(v) == IF v.k = "null" \/ (v.k = "str" /\ v.s = <<>>) \/ (v.k = "num" /\ v.n = 0)
                 THEN <<>> ELSE PyStr(v)

\* the dedup key of a row
Fingerprint(r, now) ==
    <<PyStrip(PyStr(r.GSTIN)),
      norm_number(Txt(PyStrip(PyStr(r.Invoice_Number)))),
      format_date_for_tally(r.Invoice_Date, now),
      DecText(round_amount(r.Taxable_Value)),
      DecText(round_amount(r.IGST)),
      DecText(round_amount(r.CGST)),
      DecText(round_amount(r.SGST)),
      DecText(round_amount(r.CESS))>>

\* for _, r in df.iterrows(): skip summary rows and keys already seen
RECURSIVE DedupLoop(_, _, _, _)
DedupLoop(df, seen, rows, now) ==
    IF df = <<>> THEN rows
    ELSE LET r == df[1]
             inv_num == PyStrip(PyStr(r.Invoice_Number))
             inv_typ == PyStrip(StrOrEmpty(r.Invoice_Type))
             key == Fingerprint(r, now)
         IN IF looks_like_total_or_bold(inv_typ, inv_num)
            THEN DedupLoop(Tail(df), seen, rows, now)
            ELSE IF key \in seen THEN DedupLoop(Tail(df), seen, rows, now)
            ELSE DedupLoop(Tail(df), seen \cup {key}, Append(rows, r), now)

\* a reader that hands back what it read when reading raises
extract_b2b_PartialOnFault(sheet, now) ==
    IF sheet.status = "missing" THEN <<>>
    ELSE LET raw == _extract_rows(sheet.cells, StartRow, B2bCols)
             df0 == [i \in 1..Len(raw) |-> B2bFrame(raw[i])]
             df1 == SelectSeq(df0, LAMBDA r : NotBlankAsStr(r.GSTIN))
             df2 == SelectSeq(df1, LAMBDA r : NotBlankAsStr(r.Invoice_Number))
         IN DedupLoop(df2, {}, <<>>, now)

\* a sheet is [status, cells]: status "fault" when reading raises, "missing"
\* when the workbook has no such sheet, "ok" otherwise
extract_b2b(sheet, now) ==
    IF sheet.status = "fault" THEN <<>>
    ELSE IF sheet.status = "missing" THEN <<>>
    ELSE LET raw == _extract_rows(sheet.cells, StartRow, B2bCols)
             df0 == [i \in 1..Len(raw) |-> B2bFrame(raw[i])]
             df1 == SelectSeq(df0, LAMBDA r : NotBlankAsStr(r.GSTIN))
             df2 == SelectSeq(df1, LAMBDA r : NotBlankAsStr(r.Invoice_Number))
         IN DedupLoop(df2, {}, <<>>, now)

\* layout B: GSTIN first
CdnrFrameB(row) ==
    [GSTIN |-> row[1], Party_Name |-> row[2], Invoice_Type |-> row[3],
     Invoice_Number |-> row[4], Invoice_Date |-> row[6], Invoice_Value |-> row[7],
     G |-> row[10], H |-> row[8], I |-> row[9], Taxable_Value |-> row[11],
     IGST |-> row[12], CGST |-> row[13], SGST |-> row[14], CESS |-> row[15]]

\* layout A: no GSTIN column, GSTIN set to ""
CdnrFrameA(row) ==
    [GSTIN |-> Txt(<<>>), Party_Name |-> row[1], Invoice_Type |-> row[2],
     Invoice_Number |-> row[3], Invoice_Date |-> row[5], Invoice_Value |-> row[6],
     G |-> row[9], H |-> row[7], I |-> row[8], Taxable_Value |-> row[10],
     IGST |-> row[11], CGST |-> row[12], SGST |-> row[13], CESS |-> row[14]]

\* df_b["GSTIN"].astype(str).str.strip().eq("").all()
GstinColumnBlank(raw) == \A i \in 1..Len(raw) : ~NotBlankAsStr(raw[i][1])

\* the layout extract_cdnr reads the sheet with
CdnrLayout(sheet) ==
    IF sheet.status # "ok" THEN "none"
    ELSE IF GstinColumnBlank(_extract_rows(sheet.cells, StartRow, CdnrCols)) THEN "A" ELSE "B"

extract_cdnr(sheet, now) ==
    IF sheet.status = "fault" THEN <<>>
    ELSE IF sheet.status = "missing" THEN <<>>
    ELSE LET raw == _extract_rows(sheet.cells, StartRow, CdnrCols)
             df0 == IF GstinColumnBlank(raw)
                    THEN [i \in 1..Len(raw) |-> CdnrFrameA(raw[i])]
                    ELSE [i \in 1..Len(raw) |-> CdnrFrameB(raw[i])]
             df1 == SelectSeq(df0, LAMBDA r : NotBlankAsStr(r.Party_Name))
             df2 == SelectSeq(df1, LAMBDA r : NotBlankAsStr(r.Invoice_Number))
         IN DedupLoop(df2, {}, <<>>, now)

-----------------------------------------------------------------------------
(* build_one_combined_xml                                                  *)

\* characters in code-point order
CodeOrder == <<"\t", "\n", " ", "#", "&", "(", ")", "+", "-", ".", "/">> \o DigitCs
             \o <<":", "<", ">">> \o UpperCs \o LowerCs \o <<EmDash>>

Ord(c) == CHOOSE i \in 1..Len(CodeOrder) : CodeOrder[i] = c

\* a < b for str
RECURSIVE TextLess(_, _)
TextLess(a, b) ==
    IF b = <<>> THEN FALSE
    ELSE IF a = <<>> THEN TRUE
    ELSE IF a[1] = b[1] THEN TextLess(Tail(a), Tail(b))
    ELSE Ord(a[1]) < Ord(b[1])

\* sorted(S)
RECURSIVE Sorted(_)
Sorted(S) ==
    IF S = {} THEN <<>>
    ELSE LET m == CHOOSE x \in S : \A y \in S \ {x} : TextLess(x, y)
         IN <<m>> \o Sorted(S \ {m})

\* the notes posted before the purchases
RECURSIVE Vouchers_NotesFirst(_, _, _, _, _)
Vouchers_NotesFirst(rq, b2b_rows, cdnr_rows, use, now) ==
    IF cdnr_rows # <<>>
    THEN Vouchers_NotesFirst(add_cdnr_voucher(rq, cdnr_rows[1], use, now),
                             b2b_rows, Tail(cdnr_rows), use, now)
    ELSE IF b2b_rows # <<>>
    THEN Vouchers_NotesFirst(add_purchase_voucher(rq, b2b_rows[1], use, now),
                             Tail(b2b_rows), <<>>, use, now)
    ELSE rq

RECURSIVE Vouchers(_, _, _, _, _)
Vouchers(rq, b2b_rows, cdnr_rows, use, now) ==
    IF b2b_rows # <<>>
    THEN Vouchers(add_purchase_voucher(rq, b2b_rows[1], use, now),
                  Tail(b2b_rows), cdnr_rows, use, now)
    ELSE IF cdnr_rows # <<>>
    THEN Vouchers(add_cdnr_voucher(rq, cdnr_rows[1], use, now),
                  <<>>, Tail(cdnr_rows), use, now)
    ELSE rq

SundryCreditors == <<"S","u","n","d","r","y"," ","C","r","e","d","i","t","o","r","s">>

\* supplier ledgers for the parties of the purchase rows only
SupplierLedgers_PurchasesOnly(b2b_rows, cdnr_rows) ==
    LET suppliers == {clean_party_name(b2b_rows[i].Party_Name) : i \in 1..Len(b2b_rows)}
        kept == SelectSeq(Sorted(suppliers), LAMBDA s : s # <<>> /\ s # UnknownSupplier)
    IN [i \in 1..Len(kept) |-> ledger_basic(kept[i], SundryCreditors, Yes)]

SupplierLedgers(b2b_rows, cdnr_rows) ==
    LET all == b2b_rows \o cdnr_rows
        suppliers == {clean_party_name(all[i].Party_Name) : i \in 1..Len(all)}
        kept == SelectSeq(Sorted(suppliers), LAMBDA s : s # <<>> /\ s # UnknownSupplier)
    IN [i \in 1..Len(kept) |-> ledger_basic(kept[i], SundryCreditors, Yes)]

build_one_combined_xml(comp, b2b_rows, cdnr_rows, use, now) ==
    LET tm_m == TallyMessage(
                  <<ledger_basic(PurchaseTaxable, <<"P","u","r","c","h","a","s","e"," ","A","c","c","o","u","n","t","s">>, No),
                    ledger_basic(PurchaseNilRated, <<"P","u","r","c","h","a","s","e"," ","A","c","c","o","u","n","t","s">>, No),
                    ledger_tax(InputIGST, <<"I","n","t","e","g","r","a","t","e","d"," ","T","a","x">>),
                    ledger_tax(InputCGST, <<"C","e","n","t","r","a","l"," ","T","a","x">>),
                    ledger_tax(InputSGST, <<"S","t","a","t","e"," ","T","a","x">>),
                    ledger_tax(InputCESS, <<"C","e","s","s">>),
                    ledger_basic(RoundingOff, <<"I","n","d","i","r","e","c","t"," ","E","x","p","e","n","s","e","s">>, No)>>
                  \o SupplierLedgers(b2b_rows, cdnr_rows))
        req_m == add_request(<<"A","l","l"," ","M","a","s","t","e","r","s">>, comp, <<tm_m>>)
        req_v == add_request(<<"V","o","u","c","h","e","r","s">>, comp,
                             Vouchers(<<>>, b2b_rows, cdnr_rows, use, now))
    IN prettify(new_env(<<req_m, req_v>>))

-----------------------------------------------------------------------------
(* Bounds and sample inputs                                                *)

MaxFiles == 2       \* uploaded files of a run
MaxRows == 2        \* data rows of a drawn sheet, rows handed to one build
MaxClicks == 2      \* runs over the same inputs
MaxDay == 2         \* days the clock can show

GstinA == <<"2","7","A","B","C","D","E","1","2","3","4","F","1","Z","5">>
GstinB == <<"2","9","A","A","A","C","B","1","1","1","1","K","1","Z","2">>
Acme == <<"A","c","m","e">>
AcmeWithGstin == <<"A","c","m","e"," "," ","-"," ","2","7","A","B","C","D","E","1","2","3","4","F","1","Z","5">>
Bolt == <<"B","o","l","t"," ","&"," ","C","o">>

\* a B2B sheet row: the columns of B2B_COLS and a 15th cell
B2bRow(g, p, n, t, d, tx, ig, cg, sg, ce) ==
    <<g, p, n, t, d, None, None, None, None, tx, ig, cg, sg, ce, None>>

\* a CDNR sheet row in the portal order (GSTIN first)
CdnrRow(g, p, t, n, d, tx, ig, cg, sg, ce) ==
    <<g, p, t, n, Txt(<<"R","e","g","u","l","a","r">>), d, None, None, None, None, tx, ig, cg, sg, ce>>

HeaderRows == [i \in 1..(StartRow - 1) |-> [c \in 1..CdnrCols |-> Txt(<<"G","S","T","R","-","2","A">>)]]

Sheet(rows) == [status |-> "ok", cells |-> HeaderRows \o rows]
MissingSheet == [status |-> "missing", cells |-> <<>>]
FaultySheet(rows) == [status |-> "fault", cells |-> HeaderRows \o rows]

B1 == B2bRow(Txt(GstinA), Txt(AcmeWithGstin), Txt(<<"I","N","V","-","0","1">>), Txt(<<"R">>),
             Txt(<<"0","1","-","0","4","-","2","4">>), Num(1000000), Num(0), Num(90000), Num(90000), Num(0))
\* the same invoice typed differently
B1Again == B2bRow(Txt(GstinA), Txt(Acme), Txt(<<"I","N","V","#","-","0","1">>), Txt(<<"R">>),
                  Txt(<<"1","/","4","/","2","4">>), Num(1000004), None, Txt(<<"9","0">>), Num(90000), Txt(<<"-">>))
\* no date
B2 == B2bRow(Txt(GstinB), Txt(Bolt), Txt(<<"7","7">>), Txt(<<"R">>),
             None, Num(10000), Num(1800), None, None, None)
\* nothing to post
B3 == B2bRow(Txt(GstinA), Txt(Acme), Txt(<<"I","N","V","-","0","3">>), Txt(<<"R">>),
             DateObj(2024, 4, 3), Num(0), Num(0), Num(0), Num(0), Num(0))
\* a subtotal row of the export
BTotal == B2bRow(Txt(GstinA), None, Txt(<<"1","2","3","4","5"," ","T","o","t","a","l">>), None,
                 None, Num(1180000), Num(0), Num(90000), Num(90000), Num(0))
\* a negative adjustment next to a positive tax
BNeg == B2bRow(Txt(GstinB), Txt(Bolt), Txt(<<"I","N","V","-","0","4">>), Txt(<<"R">>),
               Txt(<<"2","0","2","4","-","0","4","-","0","5">>), Num(-1000), Num(10000), Num(0), Num(0), Num(0))
\* an empty document-number cell
BNoNumber == B2bRow(Txt(GstinB), Txt(Bolt), None, Txt(<<"R">>),
                    Txt(<<"0","5","-","A","p","r","-","2","0","2","4">>), Num(5000), Num(0), Num(0), Num(0), Num(0))

\* the party cell left empty
BNoParty == B2bRow(Txt(GstinB), None, Txt(<<"I","N","V","-","0","5">>), Txt(<<"R">>),
                   Txt(<<"0","9","-","0","4","-","2","4">>), Num(8000), Num(1440), Num(0), Num(0), Num(0))

C1Debit == CdnrRow(Txt(GstinA), Txt(Acme), Txt(<<"D","e","b","i","t"," ","N","o","t","e">>), Txt(<<"D","N","-","1">>),
                   Txt(<<"0","2","-","0","4","-","2","4">>), Num(50000), Num(0), Num(0), Num(0), Num(0))
C2Credit == CdnrRow(Txt(GstinB), Txt(Bolt), Txt(<<"C","r","e","d","i","t"," ","N","o","t","e">>), Txt(<<"C","N","-","1">>),
                    Txt(<<"0","3",".","0","4",".","2","4">>), Num(20000), Num(0), Num(1800), Num(1800), Num(0))
\* no date
C3NoDate == CdnrRow(Txt(GstinB), Txt(Bolt), Txt(<<"C">>), Txt(<<"C","N","-","2">>),
                    Txt(<<"-">>), Num(1005), Num(0), Num(0), Num(0), Num(0))
\* the GSTIN cell left empty
C4NoGstin == CdnrRow(None, Txt(Acme), Txt(<<"D","E","B","I","T">>), Txt(<<"D","N","-","2">>),
                     Txt(<<"2","0","2","4","0","4","0","6">>), Num(7000), Num(0), Num(0), Num(0), Num(0))
\* the GSTIN cell holding blank text
C5BlankGstin == CdnrRow(Txt(<<" ">>), Txt(Acme), Txt(<<"C","r","e","d","i","t"," ","N","o","t","e">>), Txt(<<"C","N","-","3">>),
                        Txt(<<"0","7","/","0","4","/","2","0","2","4">>), Num(3000), Num(0), Num(0), Num(0), Num(0))
\* a sheet exported without the GSTIN column: party first
C6PartyFirst == <<Txt(Bolt), Txt(<<"C","r","e","d","i","t"," ","N","o","t","e">>), Txt(<<"C","N","-","4">>), Txt(<<"R","e","g","u","l","a","r">>),
                  Txt(<<"0","8","-","0","4","-","2","4">>), None, None, None, None,
                  Num(4000), Num(0), Num(0), Num(0), Num(0), None>>
CTotal == CdnrRow(Txt(GstinA), Txt(Acme), Txt(<<"-">>), Txt(<<"T","o","t">>),
                  None, Num(50000), Num(0), Num(0), Num(0), Num(0))

B2bRowSamples == {B1, B1Again, B2, B3, BTotal, BNeg, BNoNumber}
CdnrRowSamples == {C1Debit, C2Credit, C3NoDate, C4NoGstin, C5BlankGstin, C6PartyFirst, CTotal}

\* the sequences of at most n elements of S
RECURSIVE SeqsUpTo(_, _)
SeqsUpTo(S, n) == IF n = 0 THEN {<<>>}
                  ELSE LET shorter == SeqsUpTo(S, n - 1)
                       IN shorter \cup {Append(q, x) : q \in shorter, x \in S}

B2bSheets == {Sheet(rows) : rows \in SeqsUpTo(B2bRowSamples, MaxRows)}
             \cup {MissingSheet, FaultySheet(<<B1>>)}
CdnrSheets == {Sheet(rows) : rows \in SeqsUpTo(CdnrRowSamples, MaxRows)}
              \cup {MissingSheet, FaultySheet(<<C1Debit>>)}


\* the clock shows a day of November 2026
Day(d) == [y |-> 2026, m |-> 11, d |-> d]
Days == {Day(d) : d \in 1..MaxDay}

\* "dd<sep>mm<sep>yy", zero padded
TwoDigitYearText(dd, mm, yy, sep) ==
    Pad(NatText(dd), 2) \o <<sep>> \o Pad(NatText(mm), 2) \o <<sep>> \o Pad(NatText(yy), 2)

DateInputs ==
    {Txt(TwoDigitYearText(dd, mm, yy, sep)) :
        dd \in {1, 28, 29, 30, 31}, mm \in 1..12, yy \in 0..99, sep \in {"-", "/", "."}}
    \cup {None, Txt(<<>>), Txt(<<"-">>), Txt(<<" ">>), DateObj(2024, 4, 1), Num(45383000),
          Txt(<<"1","-","4","-","2","4">>), Txt(<<"2","0","2","4","0","4","0","1">>), Txt(<<"0","1","-","0","4","-","2","0","2","4">>), Txt(<<"0","1","/","0","4","/","2","0","2","4">>),
          Txt(<<"2","0","2","4","-","0","4","-","0","1">>), Txt(<<"0","1","-","A","p","r","-","2","0","2","4">>), Txt(<<"1"," ","A","P","R"," ","2","0","2","4">>),
          Txt(<<" ","0","1","-","0","4","-","2","4"," ">>), Txt(<<"2","0","2","4","-","0","4","-"," ","1">>), Txt(<<"A","p","r","i","l"," ","1">>),
          Txt(<<"3","1","-","0","4","-","2","0","2","4">>), Txt(<<"2","9","-","0","2","-","2","0","2","3">>)}

RecSamples ==
    [GSTIN : {Txt(GstinA)},
     Party_Name : {None, Txt(<<" ">>), Txt(AcmeWithGstin), Txt(Bolt)},
     Invoice_Number : {None, Txt(<<" ">>), Txt(<<" ","I","N","V","-","0","1">>)},
     Invoice_Type : {None, Txt(<<"D","e","b","i","t"," ","N","o","t","e">>), Txt(<<"C","r","e","d","i","t"," ","N","o","t","e">>), Txt(<<"D","E","B","I","T">>)},
     Invoice_Date : {None, Txt(<<"0","1","-","0","4","-","2","4">>)},
     Invoice_Value : {None}, G : {None}, H : {None}, I : {None},
     Taxable_Value : {None, Num(-5000), Num(1005), Num(10000)},
     IGST : {Num(0), Num(-5000), Num(18000)},
     CGST : {None, Num(900), Num(-2000)},
     SGST : {Txt(<<"-">>), Num(900)},
     CESS : {Num(0), Txt(<<"0",".","1","2","5">>)}]

\* an uploaded workbook: its B2B and its CDNR sheet
File(b, c) == [b2b |-> b, cdnr |-> c]

FileSamples ==
    {File(Sheet(<<B1, B3, B2>>), Sheet(<<C1Debit, C2Credit>>)),
     File(Sheet(<<B1Again, BTotal, BNeg>>), Sheet(<<C3NoDate, CTotal>>)),
     File(MissingSheet, Sheet(<<C4NoGstin>>)),
     File(FaultySheet(<<B1>>), FaultySheet(<<C1Debit>>)),
     File(Sheet(<<BNoNumber>>), MissingSheet)}

CompanyName == <<"D","e","m","o"," ","T","r","a","d","e","r","s">>

B2bRecSamples == {B2bFrame(B1), B2bFrame(B2), B2bFrame(B3), B2bFrame(BNeg), B2bFrame(BNoParty)}
CdnrRecSamples == {CdnrFrameB(C1Debit), CdnrFrameB(C3NoDate), CdnrFrameB(C4NoGstin)}

-----------------------------------------------------------------------------
(* State machine                                                           *)

DateIdle == date_like = None /\ date_ret = <<>>
VoucherIdle == rec = <<>> /\ req = <<>>
ExtractIdle == ws = MissingSheet /\ ret_rows = <<>> /\ layout = "none"
RunIdle == /\ files = <<>> /\ company = <<>> /\ use_inv_as_vch = FALSE /\ fi = 0
           /\ all_b2b = <<>> /\ all_cdnr = <<>> /\ outputs = <<>> /\ run_days = <<>>

dateVars == <<date_like, date_ret>>
voucherVars == <<rec, req>>
extractVars == <<ws, ret_rows, layout>>
inputVars == <<files, company, use_inv_as_vch>>
runVars == <<fi, all_b2b, all_cdnr, outputs, run_days>>

\* the clock moves on to the next day
Tick ==
    /\ today.d < MaxDay
    /\ today' = [today EXCEPT !.d = @ + 1]
    /\ UNCHANGED <<pc, dateVars, voucherVars, extractVars, inputVars, runVars>>

(* format_date_for_tally on its own *)
InitDate ==
    /\ pc = "date_call" /\ today = Day(1)
    /\ date_like \in DateInputs /\ date_ret = <<>>
    /\ VoucherIdle /\ ExtractIdle /\ RunIdle

FormatDate ==
    /\ pc = "date_call"
    /\ date_ret' = format_date_for_tally(date_like, today)
    /\ pc' = "date_done"
    /\ UNCHANGED <<today, date_like, voucherVars, extractVars, inputVars, runVars>>

NextDate == FormatDate

SpecDate == InitDate /\ [][NextDate]_vars

(* the voucher builders on one record *)
InitVoucher ==
    /\ pc = "voucher_call" /\ today = Day(1)
    /\ rec \in RecSamples /\ req = <<>>
    /\ use_inv_as_vch \in BOOLEAN
    /\ files = <<>> /\ company = <<>> /\ fi = 0
    /\ all_b2b = <<>> /\ all_cdnr = <<>> /\ outputs = <<>> /\ run_days = <<>>
    /\ DateIdle /\ ExtractIdle

AddPurchaseVoucher ==
    /\ pc = "voucher_call"
    /\ req' = add_purchase_voucher(req, rec, use_inv_as_vch, today)
    /\ pc' = "purchase_done"
    /\ UNCHANGED <<today, rec, dateVars, extractVars, inputVars, runVars>>

AddCdnrVoucher ==
    /\ pc = "voucher_call"
    /\ req' = add_cdnr_voucher(req, rec, use_inv_as_vch, today)
    /\ pc' = "cdnr_done"
    /\ UNCHANGED <<today, rec, dateVars, extractVars, inputVars, runVars>>

NextVoucher == AddPurchaseVoucher \/ AddCdnrVoucher

SpecVoucher == InitVoucher /\ [][NextVoucher]_vars

(* the readers on one sheet *)
InitExtract ==
    /\ today = Day(1)
    /\ \/ pc = "b2b_call" /\ ws \in B2bSheets
       \/ pc = "cdnr_call" /\ ws \in CdnrSheets
    /\ ret_rows = <<>> /\ layout = "none"
    /\ DateIdle /\ VoucherIdle /\ RunIdle

ExtractB2b ==
    /\ pc = "b2b_call"
    /\ ret_rows' = extract_b2b(ws, today)
    /\ pc' = "b2b_done"
    /\ UNCHANGED <<today, ws, layout, dateVars, voucherVars, inputVars, runVars>>

ExtractCdnr ==
    /\ pc = "cdnr_call"
    /\ ret_rows' = extract_cdnr(ws, today)
    /\ layout' = CdnrLayout(ws)
    /\ pc' = "cdnr_read"
    /\ UNCHANGED <<today, ws, dateVars, voucherVars, inputVars, runVars>>

NextExtract == ExtractB2b \/ ExtractCdnr

SpecExtract == InitExtract /\ [][NextExtract]_vars

(* main: the button handler over the uploaded files *)
Init ==
    /\ pc = "idle" /\ today \in Days
    /\ files \in SeqsUpTo(FileSamples, MaxFiles)
    /\ company \in {<<>>, CompanyName}
    /\ use_inv_as_vch \in BOOLEAN
    /\ fi = 0 /\ all_b2b = <<>> /\ all_cdnr = <<>> /\ outputs = <<>> /\ run_days = <<>>
    /\ DateIdle /\ VoucherIdle /\ ExtractIdle

\* if not company or not files: st.error(...); return
ClickRejected ==
    /\ pc = "idle"
    /\ company = <<>> \/ files = <<>>
    /\ pc' = "error"
    /\ UNCHANGED <<today, dateVars, voucherVars, extractVars, inputVars, runVars>>

\* all_b2b, all_cdnr = [], []
ClickStart ==
    /\ pc \in {"idle", "done"}
    /\ ~(company = <<>> \/ files = <<>>)
    /\ Len(outputs) < MaxClicks
    /\ all_b2b' = <<>> /\ all_cdnr' = <<>> /\ fi' = 1
    /\ pc' = "loop_b2b"
    /\ UNCHANGED <<today, outputs, run_days, dateVars, voucherVars, extractVars, inputVars>>

\* f.seek(0); all_b2b.extend(extract_b2b(f))
MainExtractB2b ==
    /\ pc = "loop_b2b"
    /\ all_b2b' = all_b2b \o extract_b2b(files[fi].b2b, today)
    /\ pc' = "loop_cdnr"
    /\ UNCHANGED <<today, fi, all_cdnr, outputs, run_days, dateVars, voucherVars,
                   extractVars, inputVars>>

\* f.seek(0); all_cdnr.extend(extract_cdnr(f)); next file
MainExtractCdnr ==
    /\ pc = "loop_cdnr"
    /\ all_cdnr' = all_cdnr \o extract_cdnr(files[fi].cdnr, today)
    /\ fi' = fi + 1
    /\ pc' = IF fi = Len(files) THEN "build" ELSE "loop_b2b"
    /\ UNCHANGED <<today, all_b2b, outputs, run_days, dateVars, voucherVars,
                   extractVars, inputVars>>

\* combined_xml = build_one_combined_xml(company, all_b2b, all_cdnr, use_inv_as_vch)
MainBuild ==
    /\ pc = "build"
    /\ outputs' = Append(outputs,
                    build_one_combined_xml(company, all_b2b, all_cdnr, use_inv_as_vch, today))
    /\ run_days' = Append(run_days, today)
    /\ pc' = "done"
    /\ UNCHANGED <<today, fi, all_b2b, all_cdnr, dateVars, voucherVars, extractVars,
                   inputVars>>

Next == ClickRejected \/ ClickStart \/ MainExtractB2b \/ MainExtractCdnr \/ MainBuild \/ Tick

Spec == Init /\ [][Next]_vars

(* build_one_combined_xml called again on the same rows *)
InitBuild ==
    /\ pc = "build" /\ today \in Days
    /\ files = <<>> /\ company = CompanyName
    /\ use_inv_as_vch \in BOOLEAN
    /\ all_b2b \in SeqsUpTo(B2bRecSamples, MaxRows)
    /\ all_cdnr \in SeqsUpTo(CdnrRecSamples, MaxRows)
    /\ Len(all_b2b) + Len(all_cdnr) <= MaxRows
    /\ fi = 0 /\ outputs = <<>> /\ run_days = <<>>
    /\ DateIdle /\ VoucherIdle /\ ExtractIdle

\* the same call once more
Rebuild ==
    /\ pc = "done"
    /\ Len(outputs) < MaxClicks
    /\ pc' = "build"
    /\ UNCHANGED <<today, dateVars, voucherVars, extractVars, inputVars, runVars>>

NextBuild == MainBuild \/ Rebuild \/ Tick

SpecBuild == InitBuild /\ [][NextBuild]_vars


-----------------------------------------------------------------------------
(* Reading a document back                                                 *)

KidsOf(e, tag) == SelectSeq(e.kids, LAMBDA k : k.tag = tag)
TextOf(e, tag) == KidsOf(e, tag)[1].text
VoucherOf(msg) == msg.kids[1]
EntriesOf(v) == KidsOf(v, "ALLLEDGERENTRIES.LIST")
BillsOf(entry) == KidsOf(entry, "BILLALLOCATIONS.LIST")

\* an AMOUNT text is a decimal number
IsAmount(text) == DecimalOf(text).ok

\* the signed hundredths an AMOUNT text denotes
AmountValue(text) == Val(QuantizeHalfUp(DecimalOf(text)))

RECURSIVE SumAmounts(_)
SumAmounts(entries) ==
    IF entries = <<>> THEN 0
    ELSE AmountValue(TextOf(entries[1], "AMOUNT")) + SumAmounts(Tail(entries))

\* Total of a record: the sum of its five rounded monetary fields
TotalValue(r) == Val(round_amount(r.Taxable_Value)) + Val(round_amount(r.IGST))
                 + Val(round_amount(r.CGST)) + Val(round_amount(r.SGST))
                 + Val(round_amount(r.CESS))

BuilderDone == pc \in {"purchase_done", "cdnr_done"}

-----------------------------------------------------------------------------
(* Claims                                                                  *)

\* C1: every voucher emitted by add_purchase_voucher or add_cdnr_voucher is
\* balanced: its AMOUNT texts are numbers and the signed sum of the AMOUNT
\* values of all its ALLLEDGERENTRIES.LIST entries is exactly 0, for any
\* combination of rounded amounts, zero and negative ones included.
C1_VoucherBalanced ==
    BuilderDone =>
        \A i \in 1..Len(req) :
            LET es == EntriesOf(VoucherOf(req[i]))
            IN /\ \A k \in 1..Len(es) : IsAmount(TextOf(es[k], "AMOUNT"))
               /\ SumAmounts(es) = 0

\* a null or blank document-number cell counts as empty
DocNumberEmpty(c) == c.k = "null" \/ (c.k = "str" /\ \A i \in 1..Len(c.s) : c.s[i] \in WS)

\* C2: hard gate: a record adds a VOUCHER/TALLYMESSAGE node only when its
\* cleaned party name is not "Unknown Supplier", its document number is
\* non-empty (a null or blank cell counts as empty) and its Total is > 0;
\* a record failing any of the three adds no node at all.
C2_HardGate ==
    BuilderDone =>
        /\ Len(req) <= 1
        /\ req # <<>> =>
              /\ clean_party_name(rec.Party_Name) # UnknownSupplier
              /\ ~DocNumberEmpty(rec.Invoice_Number)
              /\ TotalValue(rec) > 0

DebitUpper == <<"D","E","B","I","T">>

\* the note-type text holds "debit" in any mix of cases
HasDebitWord(c) ==
    /\ c.k = "str"
    /\ \E i \in 1..(Len(c.s) - 4) :
          \A k \in 1..5 : c.s[i + k - 1] \in {Debit[k], DebitUpper[k]}

\* the entry is the party's, at the amount, with one Agst Ref bill of the amount
PartyEntryAt(e, party, ref, amount) ==
    /\ TextOf(e, "LEDGERNAME") = party
    /\ IsAmount(TextOf(e, "AMOUNT")) /\ AmountValue(TextOf(e, "AMOUNT")) = amount
    /\ Len(BillsOf(e)) = 1
    /\ TextOf(BillsOf(e)[1], "BILLTYPE") = AgstRef
    /\ TextOf(BillsOf(e)[1], "NAME") = ref
    /\ IsAmount(TextOf(BillsOf(e)[1], "AMOUNT"))
    /\ AmountValue(TextOf(BillsOf(e)[1], "AMOUNT")) = amount

\* C4: note direction reversal: a note record that passes the gate and whose
\* note-type text contains "debit" (case-insensitive) gives a "Credit Note"
\* voucher with the party entry at +Total, an "Agst Ref" bill allocation at
\* +Total and every Purchase Taxable / tax-head entry negative; any other
\* note-type text (blank included) gives a "Debit Note" with the party entry
\* and its "Agst Ref" bill at -Total and every other entry positive; the
\* non-party entries carry no bill allocation.
C4_NoteDirection ==
    (pc = "cdnr_done" /\ req # <<>>) =>
        LET v == VoucherOf(req[1])
            es == EntriesOf(v)
            party == TextOf(v, "PARTYLEDGERNAME")
            ref == TextOf(v, "REFERENCE")
            others == SubSeq(es, 2, Len(es))
            sgn == IF HasDebitWord(rec.Invoice_Type) THEN 1 ELSE -1
        IN /\ TextOf(v, "VOUCHERTYPENAME")
                = (IF HasDebitWord(rec.Invoice_Type) THEN VchCreditNote ELSE VchDebitNote)
           /\ v.attrs[1] = <<"VCHTYPE", TextOf(v, "VOUCHERTYPENAME")>>
           /\ Len(es) >= 1
           /\ PartyEntryAt(es[1], party, ref, sgn * TotalValue(rec))
           /\ \A k \in 1..Len(others) :
                 /\ TextOf(others[k], "LEDGERNAME")
                       \in {PurchaseTaxable, InputIGST, InputCGST, InputSGST, InputCESS}
                 /\ IsAmount(TextOf(others[k], "AMOUNT"))
                 /\ sgn * AmountValue(TextOf(others[k], "AMOUNT")) < 0
                 /\ BillsOf(others[k]) = <<>>

\* a supplier's debit note written in capitals has been mirrored, tax lines included
C4_DebitNoteMirrored ==
    /\ pc = "cdnr_done" /\ req # <<>>
    /\ rec.Invoice_Type = Txt(<<"D","E","B","I","T">>)
    /\ Len(EntriesOf(VoucherOf(req[1]))) >= 3

\* what an entry says: ledger, amount, and the type and amount of its bills
EntrySummary(e) ==
    <<TextOf(e, "LEDGERNAME"), AmountValue(TextOf(e, "AMOUNT")),
      [b \in 1..Len(BillsOf(e)) |->
          <<TextOf(BillsOf(e)[b], "BILLTYPE"), AmountValue(TextOf(BillsOf(e)[b], "AMOUNT"))>>]>>

\* the entry set the purchase rule asks for
PurchaseEntriesWanted(r) ==
    LET taxable == Val(round_amount(r.Taxable_Value))
        head(name, cell) == IF Val(round_amount(cell)) # 0
                            THEN << <<name, -Val(round_amount(cell)), <<>> >> >>
                            ELSE <<>>
    IN (IF taxable > 0
        THEN << <<PurchaseTaxable, -taxable, << <<NewRef, -taxable>> >> >> >>
        ELSE <<>>)
       \o head(InputIGST, r.IGST) \o head(InputCGST, r.CGST)
       \o head(InputSGST, r.SGST) \o head(InputCESS, r.CESS)
       \o << <<clean_party_name(r.Party_Name), TotalValue(r),
               << <<NewRef, TotalValue(r)>> >> >> >>

\* C5: purchase voucher entry set: for a primary-invoice record that passes
\* the gate the voucher holds exactly, in this order, one "Purchase Taxable"
\* entry at -TaxableValue with a "New Ref" bill of the same amount iff
\* TaxableValue > 0, one entry per nonzero tax head at its negative amount
\* with no bill allocation, and one party entry at +Total with a "New Ref"
\* bill at +Total.
C5_PurchaseEntrySet ==
    (pc = "purchase_done" /\ req # <<>>) =>
        LET es == EntriesOf(VoucherOf(req[1]))
        IN [k \in 1..Len(es) |-> EntrySummary(es[k])] = PurchaseEntriesWanted(rec)


\* the text is "dd<sep>mm<sep>yy" for a day that exists in the year 2000+yy
IsTwoDigitYearDate(v) ==
    /\ v.k = "str" /\ Len(v.s) = 8
    /\ v.s[3] \in {"-", "/", "."} /\ v.s[6] = v.s[3]
    /\ \A i \in {1, 2, 4, 5, 7, 8} : IsDigit(v.s[i])
    /\ DigitsVal(SubSeq(v.s, 4, 5)) \in 1..12
    /\ DigitsVal(SubSeq(v.s, 1, 2)) \in
          1..DaysInMonth(2000 + DigitsVal(SubSeq(v.s, 7, 8)), DigitsVal(SubSeq(v.s, 4, 5)))

\* the same calendar date of the 2000s written year-month-day
AsYearMonthDay(v) ==
    Txt(Pad(NatText(2000 + DigitsVal(SubSeq(v.s, 7, 8))), 4) \o <<"-">>
        \o SubSeq(v.s, 4, 5) \o <<"-">> \o SubSeq(v.s, 1, 2))

\* C8: two-digit-year dates map to the 2000s: for every valid day dd, month
\* mm and two-digit year yy in 00..99, format_date_for_tally on "dd-mm-yy",
\* "dd/mm/yy" or "dd.mm.yy" returns the 8 digits of year 2000+yy, month mm,
\* day dd, the result of an explicit year-month-day parse of that date.
C8_TwoDigitYearIn2000s ==
    (pc = "date_done" /\ IsTwoDigitYearDate(date_like)) =>
        /\ date_ret = Pad(NatText(2000 + DigitsVal(SubSeq(date_like.s, 7, 8))), 4)
                      \o SubSeq(date_like.s, 4, 5) \o SubSeq(date_like.s, 1, 2)
        /\ date_ret = format_date_for_tally(AsYearMonthDay(date_like), today)

\* C10: note layout selection: extract_cdnr reads a note sheet with the
\* layout without a leading GSTIN column exactly when the first column of
\* every extracted row is blank (a null cell, or empty / whitespace-only
\* text); otherwise it uses the layout with GSTIN in column 1.
C10_LayoutSelection ==
    (pc = "cdnr_read" /\ ws.status = "ok") =>
        LET raw == _extract_rows(ws.cells, StartRow, CdnrCols)
        IN (layout = "A") <=> (\A i \in 1..Len(raw) : BlankCell(raw[i][1]))

\* no two rows of the list share a fingerprint
FingerprintsUnique(rows, now) ==
    \A i, j \in 1..Len(rows) :
        i < j => Fingerprint(rows[i], now) # Fingerprint(rows[j], now)

\* C3: fingerprint uniqueness within one processing run: over the whole
\* accumulated row set of a run (all uploaded files, per category) no two
\* retained records share a fingerprint; of records with one fingerprint the
\* first seen is the one kept, in first-seen order.
C3_FingerprintUniqueInRun ==
    pc \in {"build", "done"} =>
        /\ FingerprintsUnique(all_b2b, today)
        /\ FingerprintsUnique(all_cdnr, today)

IsPrefix(a, b) == Len(a) <= Len(b) /\ SubSeq(b, 1, Len(a)) = a

\* C7: fault isolation across files: a file whose sheet for a category is
\* missing or whose extraction raises contributes zero rows and never aborts
\* the run: the rows accumulated from earlier files stay as they are, every
\* later file is still processed, and document building is reached after the
\* last file with the rows of the non-faulting extractions.
C7_FaultIsolation ==
    /\ [][/\ (pc = "loop_b2b" /\ pc' # pc) =>
                /\ pc' = "loop_cdnr" /\ fi' = fi /\ all_cdnr' = all_cdnr
                /\ IsPrefix(all_b2b, all_b2b')
                /\ files[fi].b2b.status # "ok" => all_b2b' = all_b2b
          /\ (pc = "loop_cdnr" /\ pc' # pc) =>
                /\ pc' = (IF fi < Len(files) THEN "loop_b2b" ELSE "build")
                /\ fi' = fi + 1 /\ all_b2b' = all_b2b
                /\ IsPrefix(all_cdnr, all_cdnr')
                /\ files[fi].cdnr.status # "ok" => all_cdnr' = all_cdnr
          /\ (pc = "build" /\ pc' # pc) =>
                /\ pc' = "done" /\ Len(outputs') = Len(outputs) + 1
                /\ all_b2b' = all_b2b /\ all_cdnr' = all_cdnr]_vars
    /\ [](pc \in {"idle", "error", "loop_b2b", "loop_cdnr", "build", "done"})
    /\ [](pc \in {"loop_b2b", "loop_cdnr"} => fi \in 1..Len(files))
    /\ [](pc \in {"build", "done"} => fi = Len(files) + 1)

\* a run got past a faulting file and built the document from a later file's rows
C7_BuiltAfterFault ==
    /\ pc = "done" /\ Len(files) = 2
    /\ files[1].b2b.status = "fault" /\ files[1].cdnr.status = "fault"
    /\ files[2].b2b.status = "ok" /\ all_b2b # <<>> /\ all_cdnr # <<>>

\* the texts of the leaf lines of a tag, in document order
LeafTexts(doc, tag) ==
    LET ls == SelectSeq(doc, LAMBDA l : l.kind = "leaf" /\ l.tag = tag)
    IN [i \in 1..Len(ls) |-> ls[i].text]

\* the first line of the document that is such a leaf
LinePos(doc, tag, text) ==
    LET c == {i \in 1..Len(doc) : doc[i].kind = "leaf" /\ doc[i].tag = tag
                                  /\ doc[i].text = text}
    IN IF c = {} THEN 0 ELSE CHOOSE i \in c : \A j \in c : i <= j

\* the document numbers of the rows that get a voucher, in row order
PostedRefs(rows, isNote) ==
    LET posted == SelectSeq(rows, LAMBDA r :
                     (IF isNote THEN add_cdnr_voucher(<<>>, r, use_inv_as_vch, today)
                      ELSE add_purchase_voucher(<<>>, r, use_inv_as_vch, today)) # <<>>)
    IN [i \in 1..Len(posted) |-> Escape(PyStrip(PyStr(posted[i].Invoice_Number)))]

LastOutput == outputs[Len(outputs)]

\* C9: document ordering: the Masters request ("All Masters") precedes the
\* Vouchers request; inside the Vouchers request every Purchase voucher
\* precedes every Note voucher, the Purchase vouchers in the input order of
\* the primary-invoice rows and the Note vouchers in the input order of the
\* note rows; gated-out rows leave no voucher and do not reorder the rest.
C9_DocumentOrdering ==
    pc = "done" =>
        LET doc == LastOutput
            masters == LinePos(doc, "REPORTNAME", <<"A","l","l"," ","M","a","s","t","e","r","s">>)
            vouchers == LinePos(doc, "REPORTNAME", <<"V","o","u","c","h","e","r","s">>)
            types == LeafTexts(doc, "VOUCHERTYPENAME")
            refs == LeafTexts(doc, "REFERENCE")
            np == Len(PostedRefs(all_b2b, FALSE))
            vpos == {i \in 1..Len(doc) : doc[i].tag = "VOUCHER"}
            lpos == {i \in 1..Len(doc) : doc[i].tag = "LEDGER"}
        IN /\ 0 < masters /\ masters < vouchers
           /\ \A i \in lpos : masters < i /\ i < vouchers
           /\ \A i \in vpos : vouchers < i
           /\ refs = PostedRefs(all_b2b, FALSE) \o PostedRefs(all_cdnr, TRUE)
           /\ Len(types) = Len(refs)
           /\ \A i \in 1..Len(types) :
                 IF i <= np THEN types[i] = VchPurchase
                 ELSE types[i] \in {VchDebitNote, VchCreditNote}

\* a document with two purchases around a gated-out row, then two notes
C9_PurchasesThenNotes ==
    /\ pc = "done"
    /\ Len(all_b2b) = 3 /\ Len(all_cdnr) = 2
    /\ LeafTexts(LastOutput, "REFERENCE")
          = << <<"I","N","V","-","0","1">>, <<"7","7">>, <<"D","N","-","1">>, <<"C","N","-","1">> >>

\* C6 as stated: two runs of build_one_combined_xml on the same rows, company
\* and voucher-numbering option give identical output whenever they happen,
\* also for rows whose date cell is blank or unparseable.
C6_OutputDeterministic ==
    \A i, j \in 1..Len(outputs) : outputs[i] = outputs[j]

\* the cell holds a date: a date value, or text one of the formats reads
DateCellReadable(v) ==
    /\ ~IsLit(v, {<<>>, <<"-">>})
    /\ \/ v.k = "date"
       \/ LET s == PyStrip(PyStr(v))
          IN \/ \E k \in 1..Len(ShortFmts) : Strptime(s, ShortFmts[k]) # NoDate
             \/ (Len(s) = 8 /\ \A i \in 1..8 : IsDigit(s[i]))
             \/ \E k \in 1..Len(LongFmts) : Strptime(s, LongFmts[k]) # NoDate

\* every row that gets a voucher has a readable date cell
PostedRowsDated ==
    /\ \A i \in 1..Len(all_b2b) :
          add_purchase_voucher(<<>>, all_b2b[i], use_inv_as_vch, today) # <<>>
             => DateCellReadable(all_b2b[i].Invoice_Date)
    /\ \A i \in 1..Len(all_cdnr) :
          add_cdnr_voucher(<<>>, all_cdnr[i], use_inv_as_vch, today) # <<>>
             => DateCellReadable(all_cdnr[i].Invoice_Date)

\* C6 (amended): two runs on the same rows, company and option give identical
\* output when they happen on the same calendar day, or when every row that
\* gets a voucher has a date cell that can be read; a voucher of a row whose
\* date cell is blank or unparseable carries the day of the run.
C6_DeterministicUpToRunDay ==
    \A i, j \in 1..Len(outputs) :
        (run_days[i] = run_days[j] \/ PostedRowsDated) => outputs[i] = outputs[j]

\* two runs on different days over dated rows, with vouchers in the output
C6_TwoRunsOnDifferentDays ==
    /\ Len(outputs) = 2 /\ run_days[1] # run_days[2]
    /\ PostedRowsDated
    /\ Len(LeafTexts(outputs[2], "REFERENCE")) >= 2

\* the fixed standing ledgers of the Masters request
StandingLedgers == {PurchaseTaxable, PurchaseNilRated, InputIGST, InputCGST, InputSGST,
                    InputCESS, RoundingOff}

\* the NAME lines of the LEDGER nodes between the two request names
DefinedLedgers(doc, masters, vouchers) ==
    {j \in 2..Len(doc) : /\ masters < j /\ j < vouchers
                         /\ doc[j].kind = "leaf" /\ doc[j].tag = "NAME"
                         /\ doc[j-1].kind = "open" /\ doc[j-1].tag = "LEDGER"
                         /\ doc[j-1].attrs[1] = <<"NAME", doc[j].text>>}

\* the lines of the Vouchers request that name a ledger
LedgerUses(doc, vouchers) ==
    {i \in 1..Len(doc) : /\ vouchers < i /\ doc[i].kind = "leaf"
                         /\ doc[i].tag \in {"LEDGERNAME", "PARTYLEDGERNAME"}}

\* every ledger a voucher names is a standing ledger or a billwise supplier
\* ledger of the Masters request
LedgersResolve(doc, masters, vouchers) ==
    /\ 0 < masters /\ masters < vouchers
    /\ \A i \in LedgerUses(doc, vouchers) :
          \E j \in DefinedLedgers(doc, masters, vouchers) :
              /\ doc[j].text = doc[i].text
              /\ \/ doc[i].text \in StandingLedgers
                 \/ /\ j + 2 <= Len(doc) /\ doc[j+2].tag = "ISBILLWISEON"
                    /\ doc[j+2].text = Yes

\* C11: referential integrity of ledgers: in every document built by
\* build_one_combined_xml, for any input rows, each LEDGERNAME used in a
\* voucher entry and each voucher's PARTYLEDGERNAME names a LEDGER defined in
\* the Masters request of the same document, one of the fixed standing
\* ledgers or a billwise-enabled supplier ledger.
C11_LedgersDefined ==
    \A k \in 1..Len(outputs) :
        LedgersResolve(outputs[k],
                       LinePos(outputs[k], "REPORTNAME", <<"A","l","l"," ","M","a","s","t","e","r","s">>),
                       LinePos(outputs[k], "REPORTNAME", <<"V","o","u","c","h","e","r","s">>))

\* a document built from a purchase whose party cell carries a GSTIN suffix
\* and a note of a supplier no purchase names: both parties and a tax head
\* are named by the vouchers
C11_SupplierOnlyInNotes ==
    /\ Len(outputs) >= 1
    /\ all_b2b = <<B2bFrame(B1)>> /\ all_cdnr = <<CdnrFrameB(C3NoDate)>>
    /\ LeafTexts(outputs[1], "PARTYLEDGERNAME") = <<Acme, Escape(Bolt)>>
    /\ \E i \in 1..Len(outputs[1]) :
          outputs[1][i].tag = "LEDGERNAME" /\ outputs[1][i].text = InputCGST

====
